---- MODULE Spec2Model ----
(***************************************************************************)
(* The copy-and-replace playground of the React Native learning            *)
(* repository: the Slot file playground/test-app/app/index.tsx, the `cp`   *)
(* command that overwrites it with an example, the Expo preview host       *)
(* (app/_layout.tsx with its two Stack screens) and the live-reload loop   *)
(* that re-renders the Slot after every write.                             *)
(*                                                                         *)
(* A file's content is a sequence of chunks <<path, i>>: the i-th block of *)
(* bytes of the file at `path`.  cp opens the destination truncating it    *)
(* and then writes the source chunk by chunk.                              *)
(***************************************************************************)
EXTENDS Integers, Sequences, FiniteSets, TLC

\* Number of write() calls cp needs for one file.
NumChunks == 2

\* Cap of the history counter `row` (completed swaps of one source in a row).
RowCap == 2

\* Presses of a counter button one mounted unit handles.
MaxTaps == 6

\* Presses of a button other than a counter one mounted unit handles.
MaxPresses == 2

----------------------------------------------------------------------------
(* Files of the repository the operator can name as the source of a cp.    *)

PlatformDetectionPath == "concepts/01-fundamentals/platform-detection.tsx"
ButtonBasicsPath == "concepts/04-interactive-components/button-basics.tsx"
ArchitectureVisualizationPath ==
  "concepts/01-fundamentals/architecture-visualization.tsx"
PressableMasteryPath == "concepts/04-interactive-components/pressable-mastery.tsx"
InlineStylesPath == "concepts/03-basic-styling/inline-styles.tsx"
\* The example of concepts/06-custom-components/.
CustomComponentsPath == "concepts/06-custom-components/custom-components.tsx"
\* A file that exists but is not a TSX module: copying it gives content that
\* does not compile.
ReadmePath == "concepts/02-core-components/README.md"
\* playground/README.md runs this from playground/test-app, where `../concepts`
\* does not exist (the examples live in `../../concepts`).
MissingPath == "../concepts/01-fundamentals/architecture-visualization.tsx"
\* The content app/index.tsx has in the repository: the playground Index screen.
IndexPath == "playground/test-app/app/index.tsx"
ConceptPath == "playground/test-app/app/concept.tsx"

\* The sources of the cps of the documented workflow, and the files that exist.
Copied == {PlatformDetectionPath, ButtonBasicsPath, ReadmePath}
Existing ==
  Copied \cup {ArchitectureVisualizationPath, PressableMasteryPath, InlineStylesPath,
               CustomComponentsPath}
Sources == Copied \cup {MissingPath}

\* Files differ in length: button-basics.tsx (349 lines) and the Index screen
\* are the long ones, platform-detection.tsx and the README are shorter.
Size(path) ==
  IF path \in {PlatformDetectionPath, ReadmePath, PressableMasteryPath}
  THEN NumChunks - 1 ELSE NumChunks

Content(path) == [i \in 1..Size(path) |-> <<path, i>>]

NoContent == << <<"none", 0>> >>

\* An edit inside a unit (a colour, a text) that keeps it compiling: the first
\* chunk's number turns negative, and back with the next edit.
Edited(content) == [content EXCEPT ![1] = <<@[1], 0 - @[2]>>]

\* The default export of each TSX module.
Component(path) ==
  IF path = IndexPath THEN "Index"
  ELSE IF path = PlatformDetectionPath THEN "PlatformDetectionExample"
  ELSE IF path = ButtonBasicsPath THEN "ButtonBasics"
  ELSE IF path = ConceptPath THEN "TextBasicExample"
  ELSE IF path = ArchitectureVisualizationPath THEN "ArchitectureVisualization"
  ELSE IF path = PressableMasteryPath THEN "PressableMastery"
  ELSE IF path = InlineStylesPath THEN "InlineStylesExample"
  ELSE IF path = CustomComponentsPath THEN "CustomComponentsExample"
  ELSE "SyntaxError"

\* The default export of a file, or "SyntaxError" when the bundler cannot
\* compile it (not a TSX module, truncated, mixed, empty): content compiles
\* when it is the whole text of one module, edited or not.
Compile(content) ==
  IF content = <<>> THEN "SyntaxError"
  ELSE LET path == content[1][1] IN
       IF /\ Len(content) = Size(path)
          /\ content[1][2] \in {1, 0 - 1}
          /\ \A i \in 2..Len(content) : content[i] = <<path, i>>
       THEN Component(path) ELSE "SyntaxError"

\* Platform.OS values of React Native; the playground offers ios, android, web.
Targets == {"ios", "android", "web", "windows"}

PLATFORM_COLORS == {"ios", "android", "web"}

\* A lookup with a fallback entry (as Platform.select's `default`) never throws.
RenderThrows_WithDefault(unit, target) == FALSE

\* PlatformDetectionExample reads PLATFORM_COLORS[Platform.OS].background while
\* rendering: a TypeError when the table has no entry for Platform.OS.
RenderThrows(unit, target) ==
  unit = "PlatformDetectionExample" /\ target \notin PLATFORM_COLORS

PlatformSuffix(target) ==
  IF target = "ios" THEN "(iOS)"
  ELSE IF target = "android" THEN "(Android)"
  ELSE "(Other)"

\* A platform card with a literal label instead of {Platform.OS}.
PlatformDetectionExample_LiteralLabel(target) ==
  {<<"Text", "Platform Detection Demo">>, <<"Platform", "ios">>,
   <<"PlatformSuffix", "(iOS)">>, <<"Text", "iOS-Only Feature">>}

\* The rendered tree of each unit, as a set of <<element, text>> pairs.
PlatformDetectionExample(target) ==
  {<<"Text", "Platform Detection Demo">>, <<"Platform", target>>,
   <<"PlatformSuffix", PlatformSuffix(target)>>}
  \cup (IF target = "ios" THEN {<<"Text", "iOS-Only Feature">>} ELSE {})
  \cup (IF target = "android" THEN {<<"Text", "Android-Only Feature">>} ELSE {})

ButtonBasics ==
  {<<"Text", "React Native Button Examples">>, <<"Button", "Press Me">>,
   <<"Button", "Blue Button">>, <<"Button", "Disabled">>}

Index ==
  {<<"Text", "React Native Test App">>, <<"Button", "Test Current Concept">>,
   <<"Button", "How to Test?">>}

TextBasicExample ==
  {<<"Text", "Text Component Examples">>, <<"Text", "This is a basic text component">>}

\* The texts of the two units below that do not depend on their state.
ArchitectureVisualization ==
  {<<"Text", "React Native Architecture">>,
   <<"Pressable", "Tap to Test Bridge Communication">>}

PressableMastery ==
  {<<"Text", "Pressable Component Examples">>, <<"Text", "Toggle Button">>}

InlineStylesExample ==
  {<<"Text", "Inline Styles Mastery">>, <<"Pressable", "A-">>, <<"Pressable", "A+">>}

CustomComponentsExample ==
  {<<"Text", "Custom Components">>, <<"CustomButton", "Loading Button">>,
   <<"CustomButton", "Submit Form">>}

Output(unit, target) ==
  IF unit = "Index" THEN Index
  ELSE IF unit = "PlatformDetectionExample" THEN PlatformDetectionExample(target)
  ELSE IF unit = "ButtonBasics" THEN ButtonBasics
  ELSE IF unit = "ArchitectureVisualization" THEN ArchitectureVisualization
  ELSE IF unit = "PressableMastery" THEN PressableMastery
  ELSE IF unit = "InlineStylesExample" THEN InlineStylesExample
  ELSE IF unit = "CustomComponentsExample" THEN CustomComponentsExample
  ELSE TextBasicExample

\* The red error screen of the development build.
RedBox(kind) == {<<"RedBox", kind>>}

----------------------------------------------------------------------------
VARIABLES
  slot,       \* content of app/index.tsx
  writable,   \* the operator may write app/index.tsx
  swapPc,     \* "idle" | "writing": the cp process
  swapSrc,    \* source path of the most recent cp
  swapPos,    \* offset in app/index.tsx of cp's next write
  swapN,      \* chunks of the source cp has written
  report,     \* what the most recent cp told the operator
  host,       \* "NotRunning" | "Idle" | "Reloading"
  os,         \* Platform.OS of the running session
  dirty,      \* a "content changed" notification is pending
  compiling,  \* content read by the reload in progress
  bundle,     \* content of the Slot the host last compiled and rendered
  navStack,   \* routes of the Stack navigator, bottom first
  statusBar,  \* style of the StatusBar rendered by RootLayout
  swapDone,   \* source of the latest cp if it completed, else "none"
  prevDone,   \* swapDone of the cp before it
  row,        \* completed cps of swapDone directly one after another
  once,       \* Slot and screen as first settled after the first cp of a row
  conceptFile,   \* content of app/concept.tsx
  conceptRead,   \* content of app/concept.tsx read by the reload in progress
  conceptBundle, \* content of app/concept.tsx the host last compiled
  pasted,        \* source last pasted into app/concept.tsx, else "none"
  alert,         \* title of the Alert dialog on screen, else "none"
  ustate,     \* unit mounted on the index route with its React state
  rendered,   \* ustate as of the latest render: what screen and closures hold
  listeners,  \* 'change' listeners registered with Dimensions
  window,     \* window size Dimensions reports
  taps,       \* presses of its counter button the mounted unit has handled
  survived,   \* the state in ustate was there before the latest reload of an edit
  lost,       \* the unit whose used state was last discarded, and by what
  timers,     \* timer table of the JS runtime: next id, pending setTimeouts
  calls       \* presses and callback invocations since the unit was mounted

vars == <<slot, writable, swapPc, swapSrc, swapPos, swapN, report, host, os, dirty,
          compiling, bundle, navStack, statusBar, swapDone, prevDone, row, once,
          conceptFile, conceptRead, conceptBundle, pasted, alert,
          ustate, rendered, listeners, window, taps, survived, lost,
          timers, calls>>

swapVars == <<slot, swapPc, swapSrc, swapPos, swapN, report>>
hostVars == <<host, os, dirty, compiling, bundle, navStack, statusBar>>
histVars == <<swapDone, prevDone, row, once>>
conceptVars == <<conceptFile, conceptRead, conceptBundle, pasted>>
\* What a cp into app/index.tsx never touches.
unitVars == <<ustate, rendered, listeners, window, taps, survived, lost,
              timers, calls>>
appVars == <<conceptVars, alert, unitVars>>

\* Window sizes in tenths of a pixel: portrait, landscape, split screen.
Portrait == [width |-> 3927, height |-> 8509]
Windows == {Portrait, [width |-> 8509, height |-> 3927],
            [width |-> 3927, height |-> 4245]}

NoState == [unit |-> "none"]
\* No setTimeout was called yet: ids start at 1.
NoTimers == [next |-> 1, pending |-> {}]
\* Nothing was pressed and no callback has run.
NoCalls == [last |-> "none", presses |-> 0, onPress |-> 0, alerts |-> 0]
NothingLost == [unit |-> "none", by |-> "none"]

\* PressableMastery with its state restored from what the last session held.
PressableMasteryState_Persisted ==
  [unit |-> "PressableMastery",
   pressCount |-> IF lost.unit = "PressableMastery" THEN 1 ELSE 0,
   isToggled |-> FALSE]

\* useState(0) and useState(false) of PressableMastery.
PressableMasteryState ==
  [unit |-> "PressableMastery", pressCount |-> 0, isToggled |-> FALSE]

\* useState(0) and useState(false) of ArchitectureVisualization.
ArchitectureVisualizationState ==
  [unit |-> "ArchitectureVisualization", tapCount |-> 0, showInfo |-> FALSE]

\* The keys of InlineStylesExample's `themes` object.
themes == {"light", "dark", "colorful"}

\* const currentTheme = themes[selectedTheme]: a theme is named by its key.
currentTheme(selectedTheme) ==
  IF selectedTheme \in themes THEN selectedTheme ELSE "undefined"

\* useState(false), useState('light') and useState(16) of InlineStylesExample.
InlineStylesState ==
  [unit |-> "InlineStylesExample", isPressed |-> FALSE,
   selectedTheme |-> "light", fontSize |-> 16]

\* The texts a field of formData holds in the model: empty, blank, not blank.
Texts == {"", " ", "a"}

\* String.prototype.trim.
trim(text) == IF text = " " THEN "" ELSE text

\* An errors object without keys; a key set to '' is "".
NoErrors ==
  [name |-> "undefined", email |-> "undefined", message |-> "undefined",
   password |-> "undefined"]

\* The useState initial values of CustomComponentsExample that the form uses.
CustomComponentsState ==
  [unit |-> "CustomComponentsExample",
   formData |-> [name |-> "", email |-> "", message |-> "", password |-> ""],
   errors |-> NoErrors,
   loading |-> FALSE]

\* A validation that does not trim.
validateForm_NoTrim(formData) ==
  [NoErrors EXCEPT
     !.name = IF formData.name = "" THEN "Name is required" ELSE @,
     !.email = IF formData.email = "" THEN "Email is required" ELSE @,
     !.password = IF formData.password = "" THEN "Password is required" ELSE @]

\* CustomComponentsExample.validateForm: the newErrors it builds.
validateForm(formData) ==
  [NoErrors EXCEPT
     !.name = IF trim(formData.name) = "" THEN "Name is required" ELSE @,
     !.email = IF trim(formData.email) = "" THEN "Email is required" ELSE @,
     !.password = IF formData.password = "" THEN "Password is required" ELSE @]

\* The initial deviceInfo of PlatformDetectionExample.
deviceInfo(target, win) ==
  [unit |-> "PlatformDetectionExample", platform |-> target,
   version |-> "Platform.Version", isTV |-> FALSE, isTesting |-> FALSE,
   dimensions |-> win]

\* The state a unit is mounted with.
InitialState(unit, target, win) ==
  IF unit = "PressableMastery" THEN PressableMasteryState
  ELSE IF unit = "ArchitectureVisualization" THEN ArchitectureVisualizationState
  ELSE IF unit = "InlineStylesExample" THEN InlineStylesState
  ELSE IF unit = "CustomComponentsExample" THEN CustomComponentsState
  ELSE IF unit = "PlatformDetectionExample" THEN deviceInfo(target, win)
  ELSE [unit |-> unit]

\* Listeners the mount effect of a unit adds (Dimensions.addEventListener).
Effect(unit) == IF unit = "PlatformDetectionExample" THEN 1 ELSE 0

\* An effect whose cleanup never removes the subscription.
Cleanup_Missing(unit) == 0

\* Listeners the effect's cleanup removes (subscription?.remove()).
Cleanup(unit) == IF unit = "PlatformDetectionExample" THEN 1 ELSE 0

\* A state other than the one a first launch mounts the unit with.
Used(state) ==
  state.unit # "none" /\ state # InitialState(state.unit, os, Portrait)

\* `lost` after the instance with `state` is discarded.
Discard(state, by) ==
  IF Used(state) THEN [unit |-> state.unit, by |-> by] ELSE lost

NoSnapshot == [src |-> "none", slot |-> NoContent, shown |-> {}]

Running == host # "NotRunning"

\* The error screen the host shows for the Slot it rendered, if any.
ErrorView ==
  IF ~Running \/ bundle = NoContent THEN "none"
  ELSE IF "SyntaxError" \in {Compile(bundle), Compile(conceptBundle)}
    THEN "SyntaxError"
  ELSE IF RenderThrows(Compile(bundle), os) THEN "RenderError"
  ELSE IF \E i \in 1..Len(navStack) :
            navStack[i] = "concept" /\ RenderThrows(Compile(conceptBundle), os)
    THEN "RenderError"
  ELSE "none"

Top(stack) == stack[Len(stack)]

\* What is on screen: the red error screen, or the screen of the route on top
\* of the Stack (index renders the Slot, concept renders app/concept.tsx).
Displayed ==
  IF ~Running \/ bundle = NoContent THEN {}
  ELSE IF ErrorView # "none" THEN RedBox(ErrorView)
  ELSE IF Top(navStack) = "index" THEN Output(Compile(bundle), os)
  ELSE Output(Compile(conceptBundle), os)

\* No cp is running and the host has rendered every write.
Settled == swapPc = "idle" /\ host = "Idle" /\ ~dirty

\* The checkout before `npm start`: no cp is running, the host is not running,
\* app/concept.tsx is the one of the repository, the device is in portrait.
NotStarted ==
  /\ writable \in BOOLEAN
  /\ swapPc = "idle"
  /\ host = "NotRunning"
  /\ os = "none"
  /\ dirty = FALSE
  /\ compiling = NoContent
  /\ bundle = NoContent
  /\ navStack = <<>>
  /\ statusBar = "none"
  /\ prevDone = "none"
  /\ once = NoSnapshot
  /\ conceptFile = Content(ConceptPath)
  /\ conceptRead = NoContent
  /\ conceptBundle = NoContent
  /\ pasted = "none"
  /\ alert = "none"
  /\ ustate = NoState
  /\ rendered = NoState
  /\ listeners = 0
  /\ window = Portrait
  /\ taps = 0
  /\ survived = FALSE
  /\ lost = NothingLost
  /\ timers = NoTimers
  /\ calls = NoCalls

Init ==
  /\ slot = Content(IndexPath)
  /\ swapSrc = "none"
  /\ swapPos = 0
  /\ swapN = 0
  /\ report = "none"
  /\ swapDone = "none"
  /\ row = 0
  /\ NotStarted

----------------------------------------------------------------------------
(* Swap: `cp <src> app/index.tsx`.                                         *)

\* cp stats the source, then opens the destination; `opened` is the content
\* of the destination right after the open and `pos` the offset of the first
\* write.  Nothing is retried and nothing is restored on failure.
SwapOpen(src, opened, pos) ==
  /\ swapPc = "idle"
  /\ swapSrc' = src
  /\ IF src \notin Existing THEN
       /\ report' = "not-found"
       /\ UNCHANGED <<slot, swapPc, swapPos, swapN, dirty, histVars>>
     ELSE IF ~writable THEN
       /\ report' = "denied"
       /\ UNCHANGED <<slot, swapPc, swapPos, swapN, dirty, histVars>>
     ELSE
       /\ slot' = opened
       /\ swapPos' = pos
       /\ swapN' = 0
       /\ swapPc' = "writing"
       /\ report' = "none"
       /\ dirty' = Running
       /\ swapDone' = "none"
       /\ prevDone' = swapDone
       /\ row' = IF swapDone = src THEN row ELSE 0
       /\ once' = IF swapDone = src THEN once ELSE NoSnapshot
  /\ UNCHANGED <<writable, host, os, compiling, bundle, navStack, statusBar, appVars>>

\* cp opening the destination with O_APPEND instead of O_TRUNC.
SwapBegin_Append(src) == SwapOpen(src, slot, Len(slot) + 1)

\* cp opening the destination without O_TRUNC.
SwapBegin_InPlace(src) == SwapOpen(src, slot, 1)

\* A shell redirection (`cat src > app/index.tsx`) truncates the destination
\* before the source is looked at.
SwapBegin_TruncateFirst(src) ==
  IF src \notin Existing
  THEN /\ swapPc = "idle"
       /\ swapSrc' = src
       /\ slot' = <<>>
       /\ report' = "not-found"
       /\ dirty' = Running
       /\ UNCHANGED <<writable, swapPc, swapPos, swapN, host, os, compiling,
                      bundle, navStack, statusBar, histVars, appVars>>
  ELSE SwapOpen(src, <<>>, 1)

SwapBegin(src) == SwapOpen(src, <<>>, 1)

\* Content after writing `chunk` at offset `pos` (pos <= Len(content) + 1).
WriteAt(content, pos, chunk) ==
  IF pos = Len(content) + 1 THEN Append(content, chunk)
  ELSE [content EXCEPT ![pos] = chunk]

\* One write() of cp; the file watcher of a running host sees it when `seen`.
SwapWriteWith(seen) ==
  /\ swapPc = "writing"
  /\ slot' = WriteAt(slot, swapPos, Content(swapSrc)[swapN + 1])
  /\ swapPos' = swapPos + 1
  /\ swapN' = swapN + 1
  /\ dirty' = (dirty \/ seen)
  /\ IF swapN + 1 = Size(swapSrc)
     THEN /\ swapPc' = "idle"
          /\ report' = "ok"
          /\ swapDone' = swapSrc
          /\ row' = IF row < RowCap THEN row + 1 ELSE row
     ELSE /\ UNCHANGED <<swapPc, report, swapDone, row>>
  /\ UNCHANGED <<writable, swapSrc, host, os, compiling, bundle, navStack,
                 statusBar, prevDone, once, appVars>>

\* A watcher that drops the notification of a write landing during a reload.
SwapWrite_LostNotify == SwapWriteWith(host = "Idle")

SwapWrite == SwapWriteWith(Running)

\* The operator interrupts cp (Ctrl-C): the Slot keeps what was written.
SwapInterrupt ==
  /\ swapPc = "writing"
  /\ swapPc' = "idle"
  /\ report' = "interrupted"
  /\ UNCHANGED <<slot, writable, swapSrc, swapPos, swapN, hostVars, histVars, appVars>>

----------------------------------------------------------------------------
(* Preview Host: `npm start`, the reload loop, the Stack navigator.        *)

\* `npm start` and the choice of a target: RootLayout mounts the StatusBar and
\* the Stack with the index route, and the bundler reads the Slot.
Start(target) ==
  /\ host = "NotRunning"
  /\ host' = "Reloading"
  /\ os' = target
  /\ dirty' = FALSE
  /\ compiling' = slot
  /\ bundle' = NoContent
  /\ navStack' = <<"index">>
  /\ statusBar' = "auto"
  /\ conceptRead' = conceptFile
  /\ conceptBundle' = NoContent
  /\ UNCHANGED <<writable, swapVars, histVars, conceptFile, pasted, alert, unitVars>>

\* The watcher's notification is consumed: the bundler reads the route files.
ReloadStart ==
  /\ host = "Idle"
  /\ dirty
  /\ host' = "Reloading"
  /\ dirty' = FALSE
  /\ compiling' = slot
  /\ conceptRead' = conceptFile
  /\ UNCHANGED <<writable, swapVars, os, bundle, navStack, statusBar, histVars,
                 conceptFile, conceptBundle, pasted, alert, unitVars>>

\* The component tree after the reload has evaluated `unit` for the index
\* route.  Content that does not compile, or a unit that throws while
\* rendering, replaces the tree by the error screen; with `keep`, Fast Refresh
\* re-renders a unit that is already mounted with its state and runs its
\* effects again; any other unit is mounted with its initial state.
Commit(unit, keep) ==
  LET old == ustate.unit IN
  IF "SyntaxError" \in {unit, Compile(conceptRead)} \/ RenderThrows(unit, os) THEN
    /\ ustate' = NoState
    /\ rendered' = NoState
    /\ listeners' = listeners - Cleanup(old)
    /\ taps' = 0
    /\ survived' = FALSE
    /\ lost' = Discard(ustate, "reload")
    /\ calls' = NoCalls
  ELSE IF keep /\ unit = old THEN
    /\ rendered' = ustate
    /\ listeners' = (listeners - Cleanup(old)) + Effect(unit)
    /\ survived' = IF compiling # bundle THEN Used(ustate) ELSE survived
    /\ UNCHANGED <<ustate, taps, lost, calls>>
  ELSE
    /\ ustate' = InitialState(unit, os, window)
    /\ rendered' = ustate'
    /\ listeners' = (listeners - Cleanup(old)) + Effect(unit)
    /\ taps' = 0
    /\ survived' = FALSE
    /\ lost' = Discard(ustate, "reload")
    /\ calls' = NoCalls

\* The host re-renders with what the bundler read; `stack` is the navigation
\* state after the reload, `next` the host state and `keep` whether components
\* keep their state.
ReloadFinishWith(stack, next, keep) ==
  /\ host = "Reloading"
  /\ host' = next
  /\ bundle' = compiling
  /\ compiling' = NoContent
  /\ navStack' = stack
  /\ conceptBundle' = conceptRead
  /\ conceptRead' = NoContent
  /\ Commit(Compile(compiling), keep)
  /\ UNCHANGED <<writable, swapVars, os, dirty, statusBar, swapDone, prevDone, row,
                 conceptFile, pasted, alert, window, timers>>
  /\ once' = IF once = NoSnapshot /\ row = 1 /\ Settled'
             THEN [src |-> swapDone, slot |-> slot, shown |-> Displayed']
             ELSE once

\* A reload that restarts the app at its initial route.
ReloadFinish_FullReload == ReloadFinishWith(<<"index">>, "Idle", TRUE)

\* A reload that mounts every component anew.
ReloadFinish_Remount == ReloadFinishWith(navStack, "Idle", FALSE)

\* A host with a third, terminal state for content that does not compile.
ReloadFinish_ErrorState ==
  ReloadFinishWith(navStack,
                   IF Compile(compiling) = "SyntaxError" THEN "Error" ELSE "Idle",
                   TRUE)

ReloadFinish == ReloadFinishWith(navStack, "Idle", TRUE)

\* Process exit ends the session; nothing of it is kept.
Exit ==
  /\ Running
  /\ host' = "NotRunning"
  /\ os' = "none"
  /\ dirty' = FALSE
  /\ compiling' = NoContent
  /\ bundle' = NoContent
  /\ navStack' = <<>>
  /\ statusBar' = "none"
  /\ prevDone' = "none"
  /\ row' = 0
  /\ once' = NoSnapshot
  /\ conceptRead' = NoContent
  /\ conceptBundle' = NoContent
  /\ alert' = "none"
  /\ ustate' = NoState
  /\ rendered' = NoState
  /\ listeners' = 0
  /\ taps' = 0
  /\ survived' = FALSE
  /\ lost' = Discard(ustate, "exit")
  /\ timers' = NoTimers
  /\ calls' = NoCalls
  /\ UNCHANGED <<writable, swapVars, swapDone, conceptFile, pasted, window>>

\* The screens RootLayout registers with the Stack.
Screens == {"index", "concept"}

\* router.replace("/concept") in place of the push.
navigateToConcept_Replace ==
  /\ <<"Button", "Test Current Concept">> \in Displayed
  /\ alert = "none"
  /\ navStack' = Append(SubSeq(navStack, 1, Len(navStack) - 1), "concept")
  /\ prevDone' = "none"
  /\ row' = 0
  /\ once' = NoSnapshot
  /\ UNCHANGED <<writable, swapVars, host, os, dirty, compiling, bundle,
                 statusBar, swapDone, appVars>>

\* Index.navigateToConcept: router.push("/concept"), from the button
\* "Test Current Concept" of the Index screen.
navigateToConcept ==
  /\ <<"Button", "Test Current Concept">> \in Displayed
  /\ alert = "none"
  /\ navStack' = Append(navStack, "concept")
  /\ prevDone' = "none"
  /\ row' = 0
  /\ once' = NoSnapshot
  /\ UNCHANGED <<writable, swapVars, host, os, dirty, compiling, bundle,
                 statusBar, swapDone, appVars>>

\* The header back button of the Stack pops the top route.
GoBack ==
  /\ Running
  /\ bundle # NoContent
  /\ ErrorView = "none"
  /\ Len(navStack) > 1
  /\ alert = "none"
  /\ navStack' = SubSeq(navStack, 1, Len(navStack) - 1)
  /\ prevDone' = "none"
  /\ row' = 0
  /\ once' = NoSnapshot
  /\ UNCHANGED <<writable, swapVars, host, os, dirty, compiling, bundle,
                 statusBar, swapDone, appVars>>

\* Index.handleTestConcept: Alert.alert("How to Test Concepts", ...), from the
\* button "How to Test?" of the Index screen.  The dialog is modal.
handleTestConcept ==
  /\ <<"Button", "How to Test?">> \in Displayed
  /\ alert = "none"
  /\ alert' = "How to Test Concepts"
  /\ UNCHANGED <<writable, swapVars, hostVars, histVars, conceptVars, unitVars>>

\* The dialog's only button, "Got it!", closes it.
DismissAlert ==
  /\ alert # "none"
  /\ alert' = "none"
  /\ UNCHANGED <<writable, swapVars, hostVars, histVars, conceptVars, unitVars>>

\* The learner does what the Index screen and its dialog say: "Copy any concept
\* file", "Paste it in app/concept.tsx", "Save".  An editor's save replaces the
\* file in one write.
PasteConcept(src) ==
  /\ src \in Existing
  /\ conceptFile' = Content(src)
  /\ pasted' = src
  /\ dirty' = (dirty \/ Running)
  /\ prevDone' = "none"
  /\ row' = 0
  /\ once' = NoSnapshot
  /\ UNCHANGED <<writable, swapVars, host, os, compiling, bundle, navStack,
                 statusBar, swapDone, conceptRead, conceptBundle, alert, unitVars>>

\* The learner edits app/index.tsx in the editor and saves.
Edit ==
  /\ writable
  /\ swapPc = "idle"
  /\ Compile(slot) # "SyntaxError"
  /\ slot' = Edited(slot)
  /\ dirty' = (dirty \/ Running)
  /\ UNCHANGED <<writable, swapPc, swapSrc, swapPos, swapN, report, host, os,
                 compiling, bundle, navStack, statusBar, histVars, appVars>>

----------------------------------------------------------------------------
(* The units' own handlers.  A handler runs with the values of the latest   *)
(* render (`rendered`); Render brings the screen up to date with the state. *)

\* The mounted unit is on screen and takes presses.
Shown(unit) ==
  /\ Running
  /\ ustate.unit = unit
  /\ Top(navStack) = "index"
  /\ alert = "none"

Render ==
  /\ Running
  /\ rendered # ustate
  /\ rendered' = ustate
  /\ UNCHANGED <<writable, swapVars, hostVars, histVars, conceptVars, alert,
                 ustate, listeners, window, taps, survived, lost, timers, calls>>

\* setTapCount(tapCount + 1): the new count computed from the rendered value.
Updater_FromClosure(count, closure) == closure + 1

\* The updater `count => count + 1` of setTapCount and setPressCount: `count`
\* is the state at the time the update is applied, `closure` the rendered one.
Updater(count, closure) == count + 1

\* ArchitectureVisualization.handleTap.
handleTap ==
  /\ Shown("ArchitectureVisualization")
  /\ taps < MaxTaps
  /\ ustate' = [ustate EXCEPT !.tapCount = Updater(@, rendered.tapCount)]
  /\ taps' = taps + 1
  /\ alert' = IF rendered.tapCount > 0 /\ rendered.tapCount % 5 = 0
               THEN "Bridge Demo" ELSE alert
  /\ survived' = FALSE
  /\ UNCHANGED <<writable, swapVars, hostVars, histVars, conceptVars,
                 rendered, listeners, window, lost, timers, calls>>

\* ArchitectureVisualization: onPress={() => setShowInfo(!showInfo)}.
setShowInfo ==
  /\ Shown("ArchitectureVisualization")
  /\ ustate' = [ustate EXCEPT !.showInfo = ~rendered.showInfo]
  /\ survived' = FALSE
  /\ UNCHANGED <<writable, swapVars, hostVars, histVars, conceptVars, alert,
                 rendered, listeners, window, taps, lost, timers, calls>>

\* PressableMastery: onPress={() => setPressCount(count => count + 1)}.
setPressCount ==
  /\ Shown("PressableMastery")
  /\ taps < MaxTaps
  /\ ustate' = [ustate EXCEPT !.pressCount = Updater(@, rendered.pressCount)]
  /\ taps' = taps + 1
  /\ survived' = FALSE
  /\ UNCHANGED <<writable, swapVars, hostVars, histVars, conceptVars, alert,
                 rendered, listeners, window, lost, timers, calls>>

\* PressableMastery: onPress={() => setIsToggled(!isToggled)}.
setIsToggled ==
  /\ Shown("PressableMastery")
  /\ calls.presses < MaxPresses
  /\ ustate' = [ustate EXCEPT !.isToggled = ~rendered.isToggled]
  /\ calls' = [calls EXCEPT !.last = "Toggle Button", !.presses = @ + 1]
  /\ survived' = FALSE
  /\ UNCHANGED <<writable, swapVars, hostVars, histVars, conceptVars, alert,
                 rendered, listeners, window, taps, lost, timers>>

\* An update that replaces deviceInfo instead of spreading `prev`.
setDeviceInfo_NoSpread(prev, win) ==
  [prev EXCEPT !.platform = "undefined", !.version = "undefined",
               !.isTV = "undefined", !.isTesting = "undefined",
               !.dimensions = win]

\* setDeviceInfo(prev => ({ ...prev, dimensions: window })).
setDeviceInfo(prev, win) == [prev EXCEPT !.dimensions = win]

\* Math.round of a length given in tenths of a pixel.
Round(tenths) == (tenths + 5) \div 10

\* PlatformDetectionExample: {Math.round(deviceInfo.dimensions.width)} x
\* {Math.round(deviceInfo.dimensions.height)} pixels.
DisplayedDimensions ==
  <<Round(rendered.dimensions.width), Round(rendered.dimensions.height)>>

\* ArchitectureVisualization: Bridge Events: {tapCount}.
BridgeEvents == rendered.tapCount

\* InlineStylesExample: onPressIn={() => setIsPressed(true)} and
\* onPressOut={() => setIsPressed(false)} of the button "Press Me!".
setIsPressed(value) ==
  /\ Shown("InlineStylesExample")
  /\ ustate' = [ustate EXCEPT !.isPressed = value]
  /\ calls' = [calls EXCEPT !.last = "Press Me!"]
  /\ survived' = FALSE
  /\ UNCHANGED <<writable, swapVars, hostVars, histVars, conceptVars, alert,
                 rendered, listeners, window, taps, lost, timers>>

\* The label shown for a theme: charAt(0).toUpperCase() + slice(1).
Capitalized(theme) ==
  IF theme = "light" THEN "Light"
  ELSE IF theme = "dark" THEN "Dark" ELSE "Colorful"

\* A theme button that stores the label it shows.
setSelectedTheme_Capitalized(theme) ==
  /\ Shown("InlineStylesExample")
  /\ theme \in themes
  /\ ustate' = [ustate EXCEPT !.selectedTheme = Capitalized(theme)]
  /\ calls' = [calls EXCEPT !.last = theme]
  /\ survived' = FALSE
  /\ UNCHANGED <<writable, swapVars, hostVars, histVars, conceptVars, alert,
                 rendered, listeners, window, taps, lost, timers>>

\* InlineStylesExample: Object.keys(themes).map((theme) => <Pressable
\* onPress={() => setSelectedTheme(theme)}>).
setSelectedTheme(theme) ==
  /\ Shown("InlineStylesExample")
  /\ theme \in themes
  /\ ustate' = [ustate EXCEPT !.selectedTheme = theme]
  /\ calls' = [calls EXCEPT !.last = theme]
  /\ survived' = FALSE
  /\ UNCHANGED <<writable, swapVars, hostVars, histVars, conceptVars, alert,
                 rendered, listeners, window, taps, lost, timers>>

Math_max(a, b) == IF a >= b THEN a ELSE b
Math_min(a, b) == IF a <= b THEN a ELSE b

\* A-: Math.max(12, fontSize - 2).
Smaller(fontSize) == Math_max(12, fontSize - 2)

\* A+ without the upper limit.
Larger_Unclamped(fontSize) == fontSize + 2

\* A+: Math.min(24, fontSize + 2).
Larger(fontSize) == Math_min(24, fontSize + 2)

\* InlineStylesExample: onPress={() => setFontSize(...)} of the button
\* `label`; `size` is computed from the fontSize of the latest render.
setFontSize(label, size) ==
  /\ Shown("InlineStylesExample")
  /\ ustate' = [ustate EXCEPT !.fontSize = size]
  /\ calls' = [calls EXCEPT !.last = label]
  /\ survived' = FALSE
  /\ UNCHANGED <<writable, swapVars, hostVars, histVars, conceptVars, alert,
                 rendered, listeners, window, taps, lost, timers>>

\* handleTap: console.log(`... Touch event #${tapCount + 1} processed`) and
\* `Touch event traveled through the bridge ${tapCount} times!`, both with the
\* tapCount of the render the handler was created in.
TouchEventLogged == rendered.tapCount + 1
BridgeDemoMessage == rendered.tapCount

\* setTimeout(fn, delay) and clearTimeout(id) on the runtime's timer table;
\* `left` is the time in ms until the timer is due.
setTimeout(table, fn, delay) ==
  [next |-> table.next + 1,
   pending |-> table.pending \cup {[id |-> table.next, fn |-> fn, left |-> delay]}]

clearTimeout(table, id) == [table EXCEPT !.pending = {t \in @ : t.id # id}]

\* CustomComponentsExample.updateField, from onChangeText of an InputField:
\* the error of the field is emptied when the rendered errors show one.
updateField(field, value) ==
  /\ Shown("CustomComponentsExample")
  /\ ustate' = [ustate EXCEPT
                  !.formData[field] = value,
                  !.errors[field] =
                     IF rendered.errors[field] \notin {"undefined", ""} THEN "" ELSE @]
  /\ survived' = FALSE
  /\ UNCHANGED <<writable, swapVars, hostVars, histVars, conceptVars, alert,
                 rendered, listeners, window, taps, lost, timers, calls>>

\* CustomComponentsExample.handleSubmit with validateForm, both created in the
\* latest render: validation reads the formData of that render.
handleSubmit ==
  LET newErrors == validateForm(rendered.formData) IN
  IF newErrors # NoErrors
  THEN /\ ustate' = [ustate EXCEPT !.errors = newErrors]
       /\ UNCHANGED timers
  ELSE /\ ustate' = [ustate EXCEPT !.errors = newErrors, !.loading = TRUE]
       /\ timers' = setTimeout(timers, "handleSubmit", 2000)

\* The CustomButtons of the example that take a press, by title, and the props
\* each is rendered with when the example's state is `state`.
Titles ==
  {"Primary", "Secondary", "Outline", "Ghost", "Loading Button", "Submit Form"}

Props(title, state) ==
  [title |-> title,
   variant |-> IF title = "Secondary" THEN "secondary"
               ELSE IF title = "Outline" THEN "outline"
               ELSE IF title = "Ghost" THEN "ghost" ELSE "primary",
   size |-> "medium",
   disabled |-> FALSE,
   loading |-> (title \in {"Loading Button", "Submit Form"} /\ state.loading),
   onPress |-> IF title \in {"Loading Button", "Submit Form"}
               THEN "handleSubmit" ELSE "alert"]

\* alert('Primary clicked') and its like.
Clicked(title) ==
  IF title = "Primary" THEN "Primary clicked"
  ELSE IF title = "Secondary" THEN "Secondary clicked"
  ELSE IF title = "Outline" THEN "Outline clicked"
  ELSE "Ghost clicked"

\* CustomButton: <Pressable disabled={disabled || loading}>.
Pressable_disabled(props) == props.disabled \/ props.loading

\* CustomButton.handlePress: whether onPress is called.
handlePress(props) == ~props.disabled /\ ~props.loading

\* A press of the CustomButton `title`.  Pressable and handlePress hold the
\* props of the latest render of the button.
PressCustomButton(title) ==
  /\ Shown("CustomComponentsExample")
  /\ calls.presses < MaxPresses
  /\ LET props == Props(title, rendered) IN
       /\ ~Pressable_disabled(props)
       /\ IF handlePress(props)
          THEN /\ IF props.onPress = "handleSubmit"
                  THEN handleSubmit /\ UNCHANGED alert
                  ELSE alert' = Clicked(title) /\ UNCHANGED <<ustate, timers>>
               /\ calls' = [calls EXCEPT !.last = title, !.presses = @ + 1,
                                         !.onPress = @ + 1]
          ELSE /\ calls' = [calls EXCEPT !.last = title, !.presses = @ + 1]
               /\ UNCHANGED <<ustate, timers, alert>>
  /\ survived' = FALSE
  /\ UNCHANGED <<writable, swapVars, hostVars, histVars, conceptVars,
                 rendered, listeners, window, taps, lost>>

\* Time passes by `d` ms, no longer than until the next timer is due.
Tick(d) ==
  /\ Running
  /\ timers.pending # {}
  /\ \A t \in timers.pending : t.left >= d
  /\ timers' = [timers EXCEPT !.pending = {[t EXCEPT !.left = @ - d] : t \in @}]
  /\ UNCHANGED <<writable, swapVars, hostVars, histVars, conceptVars, alert,
                 ustate, rendered, listeners, window, taps, survived, lost, calls>>

\* A due timer runs its callback.  handleSubmit's is
\* () => { setLoading(false); alert('Form submitted successfully!') },
\* DebouncedButton's is () => { onPress() }.
Timeout ==
  /\ Running
  /\ \E t \in timers.pending :
       /\ t.left = 0
       /\ timers' = [timers EXCEPT !.pending = @ \ {t}]
       /\ IF t.fn = "handleSubmit"
          THEN /\ ustate' = IF ustate.unit = "CustomComponentsExample"
                            THEN [ustate EXCEPT !.loading = FALSE] ELSE ustate
               /\ alert' = "Form submitted successfully!"
               /\ calls' = [calls EXCEPT !.alerts = @ + 1]
          ELSE /\ calls' = [calls EXCEPT !.onPress = @ + 1]
               /\ UNCHANGED <<ustate, alert>>
  /\ survived' = FALSE
  /\ UNCHANGED <<writable, swapVars, hostVars, histVars, conceptVars,
                 rendered, listeners, window, taps, lost>>

\* DebouncedButton({ onPress, delay = 300 }).
delay == 300

\* const timeoutRef = useRef(null) of a DebouncedButton; 0 stands for null.
DebouncedButtonState == [unit |-> "DebouncedButton", timeoutRef |-> 0]

\* A screen of the running app renders a DebouncedButton (the notes give the
\* component, not a screen that uses it).  Presses and calls of onPress are
\* counted over the session, for every instance.
MountDebouncedButton ==
  /\ host = "Idle"
  /\ ErrorView = "none"
  /\ ustate.unit = "Index"
  /\ ustate' = DebouncedButtonState
  /\ rendered' = ustate'
  /\ survived' = FALSE
  /\ UNCHANGED <<writable, swapVars, hostVars, histVars, conceptVars, alert,
                 listeners, window, taps, lost, timers, calls>>

\* A press that starts a timer without clearing the one before.
debouncedPress_NoClear(table, ref) == setTimeout(table, "onPress", delay)

\* DebouncedButton.debouncedPress on the timer table: the timer of
\* timeoutRef.current is cleared and a new one started.
debouncedPress(table, ref) ==
  setTimeout(IF ref # 0 THEN clearTimeout(table, ref) ELSE table, "onPress", delay)

\* A press of the DebouncedButton; timeoutRef.current becomes the new id.
PressDebouncedButton ==
  /\ Shown("DebouncedButton")
  /\ calls.presses < MaxPresses
  /\ timers' = debouncedPress(timers, ustate.timeoutRef)
  /\ ustate' = [ustate EXCEPT !.timeoutRef = timers.next]
  /\ rendered' = ustate'
  /\ calls' = [calls EXCEPT !.last = "Debounced Button", !.presses = @ + 1]
  /\ survived' = FALSE
  /\ UNCHANGED <<writable, swapVars, hostVars, histVars, conceptVars, alert,
                 listeners, window, taps, lost>>

\* The cleanup of DebouncedButton's useEffect.
useEffect(table, ref) == IF ref # 0 THEN clearTimeout(table, ref) ELSE table

\* The screen stops rendering the DebouncedButton: React runs the cleanup.
UnmountDebouncedButton ==
  /\ Running
  /\ ustate.unit = "DebouncedButton"
  /\ timers' = useEffect(timers, ustate.timeoutRef)
  /\ ustate' = [unit |-> "Index"]
  /\ rendered' = ustate'
  /\ survived' = FALSE
  /\ UNCHANGED <<writable, swapVars, hostVars, histVars, conceptVars, alert,
                 listeners, window, taps, lost, calls>>

\* The window changes (rotation, split screen): Dimensions emits 'change' to
\* the registered listeners; the listener of a mounted PlatformDetectionExample
\* updates deviceInfo.
DimensionsChange(win) ==
  /\ Running
  /\ win # window
  /\ window' = win
  /\ IF listeners > 0 /\ ustate.unit = "PlatformDetectionExample"
     THEN ustate' = setDeviceInfo(ustate, win) /\ survived' = FALSE
     ELSE UNCHANGED <<ustate, survived>>
  /\ UNCHANGED <<writable, swapVars, hostVars, histVars, conceptVars, alert,
                 rendered, listeners, taps, lost, timers, calls>>

Next ==
  \/ \E src \in Sources : SwapBegin(src)
  \/ SwapWrite
  \/ SwapInterrupt
  \/ \E target \in Targets : Start(target)
  \/ ReloadStart
  \/ ReloadFinish
  \/ Exit
  \/ navigateToConcept
  \/ GoBack

Spec == Init /\ [][Next]_vars

\* The reload loop runs by itself: a pending notification is consumed and a
\* started reload completes.
FairSpec == Spec /\ WF_vars(ReloadStart) /\ WF_vars(ReloadFinish)

\* The playground as the Index screen presents it: besides the documented cp
\* into app/index.tsx, the learner presses the screen's two buttons and pastes
\* examples into app/concept.tsx.  The operator may write the Slot.
AppInit == Init /\ writable

AppNext ==
  \/ \E src \in {PlatformDetectionPath, ButtonBasicsPath} : SwapBegin(src)
  \/ SwapWrite
  \/ \E target \in Targets : Start(target)
  \/ ReloadStart
  \/ ReloadFinish
  \/ Exit
  \/ navigateToConcept
  \/ GoBack
  \/ handleTestConcept
  \/ DismissAlert
  \/ \E src \in Copied : PasteConcept(src)

AppSpec == AppInit /\ [][AppNext]_vars

\* Sessions with a unit that holds state.  The learner has copied the unit
\* into the Slot; then the host is started, the unit on screen is used, the
\* Slot is edited, the device is rotated, the host is left and restarted.
Stateful == {PlatformDetectionPath, ArchitectureVisualizationPath, PressableMasteryPath}

UnitInit ==
  \E src \in Stateful :
    /\ slot = Content(src)
    /\ swapSrc = src
    /\ swapPos = Size(src) + 1
    /\ swapN = Size(src)
    /\ report = "ok"
    /\ swapDone = src
    /\ row = 1
    /\ NotStarted
    /\ writable

UnitNext ==
  \/ \E target \in Targets : Start(target)
  \/ Edit
  \/ ReloadStart
  \/ ReloadFinish
  \/ Exit
  \/ Render
  \/ handleTap
  \/ setShowInfo
  \/ setPressCount
  \/ setIsToggled
  \/ DismissAlert
  \/ \E win \in Windows : DimensionsChange(win)

UnitSpec == UnitInit /\ [][UnitNext]_vars

\* Sessions in which a unit with a listener comes and goes: cps of
\* platform-detection and of pressable-mastery, rotations, restarts.
SessionInit == Init /\ writable

SessionNext ==
  \/ \E src \in {PlatformDetectionPath, PressableMasteryPath} : SwapBegin(src)
  \/ SwapWrite
  \/ \E target \in Targets : Start(target)
  \/ ReloadStart
  \/ ReloadFinish
  \/ Exit
  \/ Render
  \/ \E win \in Windows : DimensionsChange(win)

SessionSpec == SessionInit /\ [][SessionNext]_vars

\* Sessions with inline-styles in the Slot: the learner starts the host,
\* presses the unit's buttons, leaves and restarts.
StyleInit ==
  /\ slot = Content(InlineStylesPath)
  /\ swapSrc = InlineStylesPath
  /\ swapPos = Size(InlineStylesPath) + 1
  /\ swapN = Size(InlineStylesPath)
  /\ report = "ok"
  /\ swapDone = InlineStylesPath
  /\ row = 1
  /\ NotStarted
  /\ writable

StyleNext ==
  \/ \E target \in Targets : Start(target)
  \/ ReloadFinish
  \/ Exit
  \/ Render
  \/ \E value \in BOOLEAN : setIsPressed(value)
  \/ \E theme \in themes : setSelectedTheme(theme)
  \/ setFontSize("A-", Smaller(rendered.fontSize))
  \/ setFontSize("A+", Larger(rendered.fontSize))

StyleSpec == StyleInit /\ [][StyleNext]_vars

\* Sessions with the custom-components example in the Slot: the learner fills
\* in the form and presses the example's buttons while time passes.  Timers
\* that are due run and the screen is brought up to date.
FormInit ==
  /\ slot = Content(CustomComponentsPath)
  /\ swapSrc = CustomComponentsPath
  /\ swapPos = Size(CustomComponentsPath) + 1
  /\ swapN = Size(CustomComponentsPath)
  /\ report = "ok"
  /\ swapDone = CustomComponentsPath
  /\ row = 1
  /\ NotStarted
  /\ writable

\* What the learner types: a name that is empty, blank or not, an email, a
\* password of one blank; the optional message is left empty.
Typed ==
  ({"name"} \X Texts) \cup ({"email"} \X {"", "a"}) \cup {<<"password", " ">>}

FormNext ==
  \/ \E target \in {"ios", "android"} : Start(target)
  \/ ReloadFinish
  \/ Exit
  \/ Render
  \/ \E typed \in Typed : updateField(typed[1], typed[2])
  \/ \E title \in Titles : PressCustomButton(title)
  \/ DismissAlert
  \/ Tick(2000)
  \/ Timeout

FormSpec ==
  /\ FormInit
  /\ [][FormNext]_vars
  /\ WF_vars(Timeout)
  /\ WF_vars(Tick(2000))

\* Sessions of the playground app with a DebouncedButton on a screen: it is
\* mounted, pressed while time passes, and unmounted.
DebounceInit == Init /\ writable

DebounceNext ==
  \/ \E target \in Targets : Start(target)
  \/ ReloadFinish
  \/ Exit
  \/ MountDebouncedButton
  \/ PressDebouncedButton
  \/ UnmountDebouncedButton
  \/ \E d \in {100, 200, 300} : Tick(d)
  \/ Timeout

DebounceSpec ==
  /\ DebounceInit
  /\ [][DebounceNext]_vars
  /\ WF_vars(Timeout)
  /\ WF_vars(\E d \in {100, 200, 300} : Tick(d))

TypeOK ==
  /\ swapPc \in {"idle", "writing"}
  /\ host \in {"NotRunning", "Idle", "Reloading"}
  /\ dirty \in BOOLEAN
  /\ Len(slot) <= NumChunks
  /\ Len(navStack) <= 2

----------------------------------------------------------------------------
(* Properties.                                                             *)

\* The example units the documentation tells the learner to copy.
ValidUnits == {PlatformDetectionPath, ButtonBasicsPath}

\* The output the unit at `path` defines for a target.
DefinedOutput(path, target) ==
  IF path = PlatformDetectionPath THEN PlatformDetectionExample(target)
  ELSE ButtonBasics

\* Units named by the chunks of a content.
UnitsIn(content) == {content[i][1] : i \in 1..Len(content)}

\* C1: for every valid Example Unit E (on a target that offers what E uses) and
\* every prior Slot content, once the cp of E has completed and the host has
\* re-rendered, the screen shows exactly E's defined output and nothing of the
\* unit that was active before.
C1_DisplayIsSwappedUnit ==
  (Settled /\ swapDone \in ValidUnits /\ os \in PLATFORM_COLORS)
    => Displayed = DefinedOutput(swapDone, os)

\* C2: after a completed cp of E1 followed by a completed cp of E2 the Slot
\* holds exactly E2's content: nothing of E1 is merged in or kept.
C2_SecondSwapOverwrites ==
  (swapPc = "idle" /\ swapDone # "none" /\ prevDone # "none")
    => slot = Content(swapDone)

C2_Witness ==
  /\ swapPc = "idle"
  /\ swapDone = PlatformDetectionPath
  /\ prevDone = ButtonBasicsPath
  /\ slot = Content(PlatformDetectionPath)

\* C3: Swap is idempotent: once the second of two cps of the same unit E in a
\* row has completed and the host has re-rendered, the Slot content and the
\* screen are what they were after the first cp of E.
C3_SwapIdempotent ==
  (Settled /\ swapDone # "none" /\ row >= 2 /\ once # NoSnapshot)
    => (once.src = swapDone /\ slot = once.slot /\ Displayed = once.shown)

C3_Witness ==
  /\ Settled
  /\ row >= 2
  /\ once # NoSnapshot
  /\ swapDone = ButtonBasicsPath
  /\ Displayed = ButtonBasics

\* C4: in every reachable state, also in the middle of a cp, at most one
\* Example Unit occupies the Slot and at most one is what the host compiled
\* and renders for it.
C4_AtMostOneActive ==
  /\ Cardinality(UnitsIn(slot)) <= 1
  /\ bundle # NoContent => Cardinality(UnitsIn(bundle)) <= 1
  /\ compiling # NoContent => Cardinality(UnitsIn(compiling)) <= 1

C4_Witness ==
  /\ swapPc = "writing"
  /\ prevDone = PlatformDetectionPath
  /\ UnitsIn(slot) = {ButtonBasicsPath}
  /\ UnitsIn(bundle) = {PlatformDetectionPath}

\* Every content app/index.tsx can hold: a file of the repository or what cp
\* has written of it so far.
SlotContents ==
  UNION {{SubSeq(Content(p), 1, n) : n \in 0..Size(p)} :
           p \in Copied \cup {IndexPath}}

\* C5: the Preview Host has exactly two states, Idle and Reloading; a change of
\* the Slot takes it from Idle to Reloading, Reloading always ends in Idle, and
\* only process exit ends the session.
C5_IdleReloadingIdle ==
  /\ [](Running => host \in {"Idle", "Reloading"})
  /\ (host = "Idle" /\ dirty) ~> (host = "Reloading" \/ ~Running)
  /\ (host = "Reloading") ~> (host = "Idle" \/ ~Running)
  /\ [][Running /\ ~Running' => Exit]_vars

C5_Witness ==
  /\ host = "Idle"
  /\ ~dirty
  /\ swapDone = ButtonBasicsPath
  /\ bundle = Content(ButtonBasicsPath)

\* C6: every write to the Slot of a running host raises the change
\* notification; a host that is idle with no notification pending renders
\* exactly what the Slot holds; and whatever the Slot holds is eventually
\* rendered unless it is overwritten again or the process exits, also when the
\* write landed during a reload.
C6_LastWriteWins ==
  /\ [][(Running /\ slot' # slot) => dirty']_vars
  /\ []((host = "Idle" /\ ~dirty) => bundle = slot)
  /\ \A c \in SlotContents :
       (Running /\ slot = c) ~> (bundle = c \/ slot # c \/ ~Running)

C6_Witness ==
  /\ host = "Reloading"
  /\ dirty
  /\ swapPc = "idle"
  /\ swapDone = ButtonBasicsPath
  /\ compiling # slot

C8_RecoversFromMalformed ==
  /\ (Settled /\ swapDone = ReadmePath) => Displayed = RedBox("SyntaxError")
  /\ (Settled /\ prevDone = ReadmePath /\ swapDone \in ValidUnits
        /\ os \in {"ios", "android", "web"})
       => Displayed = DefinedOutput(swapDone, os)

\* C9: a cp whose source does not exist, or that may not write the Slot, ends
\* with a failure reported to the operator; it leaves the Slot as it was,
\* starts no copy and no retry, and restores nothing.
C9_FailedSwapReported ==
  [][/\ (swapSrc' # swapSrc /\ swapSrc' \notin Existing) => report' = "not-found"
     /\ (swapSrc' # swapSrc /\ swapSrc' \in Existing /\ ~writable)
          => report' = "denied"
     /\ report' \in {"not-found", "denied"}
          => (slot' = slot /\ swapPc' = "idle" /\ swapDone' = swapDone)]_vars

C9_Witness ==
  /\ report = "not-found"
  /\ swapSrc = MissingPath
  /\ slot = Content(ButtonBasicsPath)
  /\ swapDone = ButtonBasicsPath

\* C10: the re-render that ends a reload leaves the navigation stack and the
\* status bar configuration as they were.
C10_ReloadKeepsGlobalState ==
  [][(host = "Reloading" /\ host' = "Idle")
       => (navStack' = navStack /\ statusBar' = statusBar)]_vars

C10_Witness ==
  /\ host = "Idle"
  /\ navStack = <<"index", "concept">>
  /\ statusBar = "auto"
  /\ bundle = Content(ButtonBasicsPath)

C15_NotTransactional ==
  /\ [](report = "interrupted"
          => (swapN < Size(swapSrc) /\ slot = SubSeq(Content(swapSrc), 1, swapN)))
  /\ [][(report = "interrupted" /\ report' = "interrupted") => slot' = slot]_vars

\* The Slot equals neither the unit it held nor the unit chosen.
C15_Witness ==
  /\ report = "interrupted"
  /\ prevDone = PlatformDetectionPath
  /\ swapSrc = ButtonBasicsPath
  /\ slot # Content(PlatformDetectionPath)
  /\ slot # Content(ButtonBasicsPath)
  /\ slot # <<>>

\* C19: with platform-detection on screen, for every Platform.OS the iOS-only
\* card is shown iff the OS is ios and the Android-only card iff it is
\* android, and the platform label ends in (iOS), (Android) or, for every
\* other OS, (Other).
C19_PlatformCardsAndSuffix ==
  (Settled /\ navStack = <<"index">> /\ swapDone = PlatformDetectionPath)
    => /\ <<"Text", "iOS-Only Feature">> \in Displayed <=> os = "ios"
       /\ <<"Text", "Android-Only Feature">> \in Displayed <=> os = "android"
       /\ <<"PlatformSuffix", "(iOS)">> \in Displayed <=> os = "ios"
       /\ <<"PlatformSuffix", "(Android)">> \in Displayed <=> os = "android"
       /\ <<"PlatformSuffix", "(Other)">> \in Displayed
            <=> os \notin {"ios", "android"}

\* C12: the host renders one Slot: what is on screen at start is the content
\* of the file the learner is told to overwrite, so once the learner has put a
\* unit where told (app/index.tsx by the docs' cp, app/concept.tsx by the Index
\* screen) and has not navigated, that unit is what is on screen.
C12_ScreenIsTheFileToOverwrite ==
  /\ (Settled /\ navStack = <<"index">> /\ ErrorView = "none")
       => Displayed = Output(Compile(slot), os)
  /\ (Settled /\ navStack = <<"index">> /\ os \in PLATFORM_COLORS
        /\ swapDone \in ValidUnits)
       => Displayed = DefinedOutput(swapDone, os)
  /\ (Settled /\ navStack = <<"index">> /\ os \in PLATFORM_COLORS
        /\ swapSrc = "none" /\ pasted \in ValidUnits)
       => Displayed = DefinedOutput(pasted, os)

\* C16: the Stack holds registered screens only, index and concept; a press of
\* "Test Current Concept" on the Index screen pushes concept on the stack and
\* shows no dialog; a press of "How to Test?" shows the alert and leaves the
\* stack, the files and the host as they are.
C16_PushAndAlert ==
  /\ [](Cardinality(Screens) = 2
          /\ \A i \in 1..Len(navStack) : navStack[i] \in Screens)
  /\ [][(Running /\ Running' /\ navStack' # navStack /\ Top(navStack) = "index")
          => (navStack' = Append(navStack, "concept") /\ alert' = alert)]_vars
  /\ [][(alert = "none" /\ alert' # "none")
          => (/\ alert' = "How to Test Concepts"
              /\ <<"Button", "How to Test?">> \in Displayed
              /\ UNCHANGED <<navStack, slot, hostVars, conceptVars>>)]_vars

C16_Witness ==
  /\ host = "Idle"
  /\ navStack = <<"index", "concept">>
  /\ alert = "none"
  /\ Displayed = TextBasicExample

\* C13: a reload of an edit of the unit on screen happens in the running
\* session, shows the edited content and keeps the unit's component state
\* (tap counter, toggle).
C13_EditKeepsState ==
  [][(host = "Reloading" /\ host' = "Idle" /\ ustate.unit # "none"
        /\ Compile(compiling) = ustate.unit)
      => (/\ ustate' = ustate
          /\ rendered' = ustate
          /\ bundle' = compiling
          /\ os' = os
          /\ navStack' = navStack)]_vars

C13_Witness ==
  /\ host = "Idle"
  /\ survived
  /\ bundle = Edited(Content(PressableMasteryPath))
  /\ ustate = [unit |-> "PressableMastery", pressCount |-> 2, isToggled |-> TRUE]
  /\ rendered = ustate

\* C14: nothing of a session lives on after it: while the host is not running
\* no unit is mounted and no listener is registered, a restart reads the
\* current Slot content, and the unit it mounts has every piece of its state
\* at the initial value.
C14_RestartResetsState ==
  /\ [](~Running => (/\ ustate = NoState
                     /\ rendered = NoState
                     /\ listeners = 0
                     /\ bundle = NoContent
                     /\ navStack = <<>>
                     /\ alert = "none"))
  /\ [][(~Running /\ Running') => compiling' = slot]_vars
  /\ [][(ustate.unit = "none" /\ ustate'.unit # "none")
          => (/\ bundle' = compiling
              /\ ustate'.unit = Compile(compiling)
              /\ rendered' = ustate'
              /\ ustate'.unit = "PressableMastery"
                   => (ustate'.pressCount = 0 /\ ustate'.isToggled = FALSE)
              /\ ustate'.unit = "ArchitectureVisualization"
                   => (ustate'.tapCount = 0 /\ ustate'.showInfo = FALSE)
              /\ ustate'.unit = "PlatformDetectionExample"
                   => (ustate'.dimensions = window' /\ ustate'.platform = os'))]_vars

C14_Witness ==
  /\ lost = [unit |-> "PressableMastery", by |-> "exit"]
  /\ host = "Idle"
  /\ bundle = slot
  /\ ustate = [unit |-> "PressableMastery", pressCount |-> 0, isToggled |-> FALSE]

\* C17: in platform-detection, deviceInfo.dimensions is the window of the most
\* recent 'change' event, the displayed dimensions are that window's (rounded)
\* once rendered, and an event leaves platform, version, isTV and isTesting as
\* they were.
C17_DimensionsFollowEvents ==
  /\ [](ustate.unit = "PlatformDetectionExample"
          => (/\ ustate.dimensions = window
              /\ rendered = ustate
                   => DisplayedDimensions
                        = <<Round(window.width), Round(window.height)>>))
  /\ [][(window' # window /\ ustate.unit = "PlatformDetectionExample")
          => (/\ ustate'.unit = "PlatformDetectionExample"
              /\ ustate'.platform = ustate.platform
              /\ ustate'.version = ustate.version
              /\ ustate'.isTV = ustate.isTV
              /\ ustate'.isTesting = ustate.isTesting)]_vars

\* An event has been handled and is not rendered yet.
C17_Witness ==
  /\ ustate.unit = "PlatformDetectionExample"
  /\ ustate.dimensions = window
  /\ rendered.dimensions # window
  /\ window # Portrait

\* C18: exactly one 'change' listener is registered while platform-detection
\* is mounted and none while it is not, and a 'change' event that comes when
\* it is not mounted updates no component state.
C18_OneListenerWhileMounted ==
  /\ [](listeners = IF ustate.unit = "PlatformDetectionExample" THEN 1 ELSE 0)
  /\ [][(window' # window /\ ustate.unit # "PlatformDetectionExample")
          => (ustate' = ustate /\ rendered' = rendered)]_vars

\* platform-detection was used and then replaced by another unit.
C18_Witness ==
  /\ lost = [unit |-> "PlatformDetectionExample", by |-> "reload"]
  /\ ustate.unit = "PressableMastery"
  /\ listeners = 0
  /\ window # Portrait

\* C20: in architecture-visualization the count in the state is the number of
\* taps handled, also when taps are handled before a re-render, and the
\* displayed "Bridge Events" count is that number once rendered.
C20_BridgeEventsCountsTaps ==
  ustate.unit = "ArchitectureVisualization"
    => (/\ ustate.tapCount = taps
        /\ BridgeEvents <= taps
        /\ rendered = ustate => BridgeEvents = taps)

\* Two taps were handled since the latest render.
C20_Witness ==
  /\ ustate.unit = "ArchitectureVisualization"
  /\ taps = MaxTaps
  /\ BridgeEvents + 2 <= ustate.tapCount

\* C21: in architecture-visualization the "Bridge Demo" alert is shown exactly
\* on every fifth tap, and the number it reports is the number of taps handled
\* so far including the one that opened it, which is also the event number
\* logged for that tap.
C21_AlertOnEveryFifthTap ==
  /\ [][(taps' = taps + 1 /\ ustate.unit = "ArchitectureVisualization")
          => (alert' = "Bridge Demo" <=> taps' % 5 = 0)]_vars
  /\ [][(alert = "none" /\ alert' = "Bridge Demo")
          => (BridgeDemoMessage = taps' /\ TouchEventLogged = taps')]_vars

\* C22: in pressable-mastery a press of the state-styled button adds one to
\* the tap count and leaves the toggle as it is; a press of the toggle button
\* flips the toggle and leaves the tap count as it is, so that the toggle is
\* ON after an odd number of toggle presses and back at its original value
\* after two.
C22_CounterAndToggle ==
  /\ [](ustate.unit = "PressableMastery"
          => (/\ ustate.pressCount = taps
              /\ ustate.isToggled = (calls.presses % 2 = 1)))
  /\ [][(ustate.unit = "PressableMastery" /\ taps' = taps + 1)
          => ustate'.isToggled = ustate.isToggled]_vars
  /\ [][(ustate.unit = "PressableMastery" /\ calls'.presses = calls.presses + 1)
          => (/\ ustate'.isToggled = ~ustate.isToggled
              /\ ustate'.pressCount = ustate.pressCount)]_vars

\* C23: in inline-styles the font size is always an even integer from 12 to
\* 24: it is 16 when the unit is mounted, a press of A- or A+ sets it 2 below
\* or above the size on screen, and A- at 12 and A+ at 24 leave it as it is.
C23_FontSizeEvenInRange ==
  /\ [](ustate.unit = "InlineStylesExample"
          => (ustate.fontSize \in 12..24 /\ ustate.fontSize % 2 = 0))
  /\ [][(ustate.unit # "InlineStylesExample"
            /\ ustate'.unit = "InlineStylesExample") => ustate'.fontSize = 16]_vars
  /\ [][(/\ ustate.unit = "InlineStylesExample"
          /\ ustate'.unit = "InlineStylesExample"
          /\ calls' # calls
          /\ calls'.last \in {"A-", "A+"})
          => ustate'.fontSize =
               IF calls'.last = "A-"
               THEN (IF rendered.fontSize = 12 THEN 12 ELSE rendered.fontSize - 2)
               ELSE (IF rendered.fontSize = 24 THEN 24 ELSE rendered.fontSize + 2)]_vars
  /\ [][(ustate.unit = "InlineStylesExample"
            /\ ustate'.unit = "InlineStylesExample"
            /\ ustate'.fontSize # ustate.fontSize)
          => calls'.last \in {"A-", "A+"}]_vars

\* A+ was pressed with 24 on screen.
C23_Witness ==
  /\ ustate.unit = "InlineStylesExample"
  /\ calls.last = "A+"
  /\ rendered.fontSize = 24
  /\ ustate.fontSize = 24

\* C24: in inline-styles selectedTheme is always one of light, dark and
\* colorful, so themes[selectedTheme] is defined at every render; a press of a
\* theme button sets selectedTheme to the button's theme and leaves isPressed
\* and fontSize as they are.
C24_ThemeDefined ==
  /\ [](ustate.unit = "InlineStylesExample"
          => (/\ ustate.selectedTheme \in {"light", "dark", "colorful"}
              /\ currentTheme(ustate.selectedTheme) # "undefined"
              /\ currentTheme(rendered.selectedTheme) # "undefined"
              /\ calls.last \in themes => ustate.selectedTheme = calls.last))
  /\ [][(/\ ustate.unit = "InlineStylesExample"
          /\ ustate'.unit = "InlineStylesExample"
          /\ \/ ustate'.selectedTheme # ustate.selectedTheme
             \/ (calls' # calls /\ calls'.last \in themes))
          => (/\ ustate'.selectedTheme = calls'.last
              /\ ustate'.isPressed = ustate.isPressed
              /\ ustate'.fontSize = ustate.fontSize)]_vars

\* The dark theme was chosen while the button was held and the font enlarged.
C24_Witness ==
  /\ ustate.unit = "InlineStylesExample"
  /\ calls.last = "dark"
  /\ ustate.selectedTheme = "dark"
  /\ ustate.isPressed
  /\ ustate.fontSize = 18

\* C25: CustomButton never calls its onPress while its disabled or loading
\* prop is true, for every variant and size, also when the press comes before
\* the button has re-rendered with the new value of the prop.
C25_NoCallWhileDisabledOrLoading ==
  /\ [](\A variant \in {"primary", "secondary", "outline", "ghost"},
          size \in {"small", "medium", "large"}, disabled, loading \in BOOLEAN :
          handlePress([title |-> "Submit Form", variant |-> variant, size |-> size,
                       disabled |-> disabled, loading |-> loading,
                       onPress |-> "handleSubmit"])
            => (~disabled /\ ~loading))
  /\ [][(ustate.unit = "CustomComponentsExample"
            /\ calls'.onPress = calls.onPress + 1)
          => (/\ ~Props(calls'.last, rendered).disabled
              /\ ~Props(calls'.last, rendered).loading
              /\ ~Props(calls'.last, ustate).disabled
              /\ ~Props(calls'.last, ustate).loading)]_vars

\* C26: in the custom-components form a submit with a name or an email that is
\* empty after trimming, or with an empty password, sets exactly one message
\* for each required field that fails and none for the message field, and it
\* neither sets loading nor starts a timer nor shows an alert.
C26_InvalidSubmitSetsErrorsOnly ==
  [][(/\ ustate.unit = "CustomComponentsExample"
      /\ calls'.onPress = calls.onPress + 1
      /\ calls'.last \in {"Loading Button", "Submit Form"}
      /\ \/ trim(rendered.formData.name) = ""
         \/ trim(rendered.formData.email) = ""
         \/ rendered.formData.password = "")
      => (/\ ustate'.errors.name =
               IF rendered.formData.name \in {"", " "}
               THEN "Name is required" ELSE "undefined"
          /\ ustate'.errors.email =
               IF rendered.formData.email \in {"", " "}
               THEN "Email is required" ELSE "undefined"
          /\ ustate'.errors.password =
               IF rendered.formData.password = ""
               THEN "Password is required" ELSE "undefined"
          /\ ustate'.errors.message = "undefined"
          /\ ustate'.loading = ustate.loading
          /\ ustate'.formData = ustate.formData
          /\ timers' = timers
          /\ alert' = alert
          /\ calls'.alerts = calls.alerts)]_vars

\* A submit of a blank name with email and password filled in.
C26_Witness ==
  /\ ustate.unit = "CustomComponentsExample"
  /\ calls.last = "Submit Form"
  /\ calls.onPress = 1
  /\ ustate.formData = [name |-> " ", email |-> "a", message |-> "", password |-> " "]
  /\ rendered.formData = ustate.formData
  /\ ustate.errors = [NoErrors EXCEPT !.name = "Name is required"]
  /\ ~ustate.loading
  /\ timers.pending = {}

\* C27: in the custom-components form a valid submit sets loading, and loading
\* returns to false with one success alert; as both submit buttons are
\* disabled while loading, at most one submission timer is pending at any time,
\* whatever the sequence and timing of presses.
C27_OneSubmissionAtATime ==
  /\ [][(/\ ustate.unit = "CustomComponentsExample"
          /\ calls'.onPress = calls.onPress + 1
          /\ calls'.last \in {"Loading Button", "Submit Form"}
          /\ validateForm(rendered.formData) = NoErrors)
          => ustate'.loading]_vars
  /\ [](Cardinality(timers.pending) <= 1)
  /\ [](ustate.unit = "CustomComponentsExample"
          => (ustate.loading <=> Cardinality(timers.pending) = 1))
  /\ [][calls'.alerts = calls.alerts + 1
          => (alert' = "Form submitted successfully!" /\ timers'.pending = {})]_vars
  /\ (ustate.unit = "CustomComponentsExample" /\ ustate.loading)
       ~> (ustate.unit # "CustomComponentsExample" \/ ~ustate.loading)

\* C28: DebouncedButton debounces: a press never calls onPress itself, it
\* clears the pending timer and starts one of `delay`, so at most one timer is
\* pending, that of the last press; onPress is called once, when that timer
\* is due, `delay` after the last press, and a pending timer does run unless a
\* press or the unmount clears it; after the unmount no timer is left and
\* onPress is not called.
C28_Debounced ==
  /\ [](Cardinality(timers.pending) <= 1)
  /\ [](ustate.unit = "DebouncedButton"
          => \A t \in timers.pending : t.id = ustate.timeoutRef /\ t.left <= delay)
  /\ [](ustate.unit # "DebouncedButton" => timers.pending = {})
  /\ [](calls.onPress + Cardinality(timers.pending) <= calls.presses)
  /\ [][calls'.presses = calls.presses + 1
          => (/\ calls'.onPress = calls.onPress
              /\ timers'.pending =
                   {[id |-> ustate'.timeoutRef, fn |-> "onPress", left |-> delay]})]_vars
  /\ [][calls'.onPress = calls.onPress + 1
          => (/\ ustate.unit = "DebouncedButton"
              /\ timers.pending =
                   {[id |-> ustate.timeoutRef, fn |-> "onPress", left |-> 0]}
              /\ timers'.pending = {})]_vars
  /\ (timers.pending # {}) ~> (timers.pending = {})

\* Two presses less than `delay` apart on one instance, and one call of
\* onPress after them.
C28_Witness ==
  /\ ustate = [unit |-> "DebouncedButton", timeoutRef |-> 2]
  /\ timers = [next |-> 3, pending |-> {}]
  /\ calls.presses = 2
  /\ calls.onPress = 1

====
